---- MODULE Spec2Model ----
(***************************************************************************)
(* Model of homework.py: the fitness tracker's calculation hierarchy       *)
(* (Training, Running, SportsWalking, Swimming), the InfoMessage record,   *)
(* the dispatcher read_package and the batch driver of __main__.           *)
(*                                                                         *)
(* Numbers are exact rationals [n |-> numerator, d |-> denominator > 0]    *)
(* in lowest terms, so 0.65 is 13/20 and a result such as 699.75 is 2799/4.*)
(* A call's outcome is a record [kind, exc, msg, val]: kind "value" with   *)
(* the returned value in val, or kind "raise" with the exception in exc.   *)
(***************************************************************************)
EXTENDS Integers, Sequences, FiniteSets, TLC

VARIABLES training, constructed, arg, ret, history, packages, i, pc, out, err

vars == <<training, constructed, arg, ret, history, packages, i, pc, out, err>>

(* ---------------------------- bounds ---------------------------------- *)
MaxDataLen == 6
MaxCalls == 3
MaxPackages == 3

(* ------------------------ exact arithmetic ---------------------------- *)
Abs(x) == IF x < 0 THEN 0 - x ELSE x

RECURSIVE GCD(_, _)
GCD(a, b) == IF b = 0 THEN a ELSE GCD(b, a % b)

Rat(n, d) ==
    LET s == IF d < 0 THEN 0 - 1 ELSE 1
        g == GCD(Abs(n), Abs(d))
    IN  [n |-> (s * n) \div g, d |-> (s * d) \div g]

Num(k) == [n |-> k, d |-> 1]

Add(x, y) == Rat(x.n * y.d + y.n * x.d, x.d * y.d)
Sub(x, y) == Rat(x.n * y.d - y.n * x.d, x.d * y.d)
Mul(x, y) == Rat(x.n * y.n, x.d * y.d)
TrueDiv(x, y) == Rat(x.n * y.d, x.d * y.n)
FloorDiv_mut(x, y) ==
    LET q == TrueDiv(x, y) IN Num((2 * q.n + q.d) \div (2 * q.d))
FloorDiv(x, y) == LET q == TrueDiv(x, y) IN Num(q.n \div q.d)
Pow2(x) == Mul(x, x)
IsZero(x) == x.n = 0
Less(x, y) == x.n * y.d < y.n * x.d

(* --------------------------- outcomes --------------------------------- *)
NoMsg == [code |-> "", keys |-> <<>>, cls |-> ""]

Value(v) == [kind |-> "value", exc |-> "", msg |-> NoMsg, val |-> v]
Raise(e, m) == [kind |-> "raise", exc |-> e, msg |-> m, val |-> Num(0)]

ZeroDivisionError == Raise("ZeroDivisionError", NoMsg)
TypeError == Raise("TypeError", NoMsg)

(* ------------------------ class constants ----------------------------- *)
M_IN_KM == 1000
MIN_IN_H == 60
LEN_STEP(cls) == IF cls = "Swimming" THEN Rat(138, 100) ELSE Rat(65, 100)
CALORIES_SPEED_MULTIPLIER == 18
CALORIES_SPEED_DEGREES == 20
CALORIES_WEIGHT_MULTIPLIER_WLK == Rat(35, 1000)
CALORIES_SPEED_HEIGHT_MULTIPLIER == Rat(29, 1000)
CALORIES_MEAN_SPEED_SHIFT == Rat(11, 10)
CALORIES_WEIGHT_MULTIPLIER_SWM == 2

(* --------------------------- instances -------------------------------- *)
Unset == Num(0)

NoTraining ==
    [cls |-> "None", action |-> Unset, duration_h |-> Unset,
     weight_kg |-> Unset, height_sm |-> Unset,
     length_pool_m |-> Unset, count_pool |-> Unset]

Training_init(cls, action, duration, weight) ==
    [NoTraining EXCEPT !.cls = cls, !.action = action,
                       !.duration_h = duration, !.weight_kg = weight]

SportsWalking_init(action, duration, weight, height) ==
    [Training_init("SportsWalking", action, duration, weight)
        EXCEPT !.height_sm = height]

Swimming_init_mut(action, duration, weight, length_pool, count_pool) ==
    [Training_init("Swimming", action, duration, weight)
        EXCEPT !.length_pool_m = count_pool, !.count_pool = length_pool]

Swimming_init(action, duration, weight, length_pool, count_pool) ==
    [Training_init("Swimming", action, duration, weight)
        EXCEPT !.length_pool_m = length_pool, !.count_pool = count_pool]

(* ---------------------------- methods --------------------------------- *)
Training_get_distance(self) ==
    Value(TrueDiv(Mul(self.action, LEN_STEP(self.cls)), Num(M_IN_KM)))

Training_get_mean_speed_mut(self) ==
    LET dist == Training_get_distance(self)
    IN  IF IsZero(self.duration_h) THEN Value(Num(0))
        ELSE Value(TrueDiv(dist.val, self.duration_h))

Training_get_mean_speed(self) ==
    LET dist == Training_get_distance(self)
    IN  IF IsZero(self.duration_h) THEN ZeroDivisionError
        ELSE Value(TrueDiv(dist.val, self.duration_h))

Swimming_get_mean_speed(self) ==
    LET swum == TrueDiv(Mul(self.length_pool_m, self.count_pool), Num(M_IN_KM))
    IN  IF IsZero(self.duration_h) THEN ZeroDivisionError
        ELSE Value(TrueDiv(swum, self.duration_h))

get_distance(self) == Training_get_distance(self)

get_mean_speed_mut(self) == Training_get_mean_speed(self)

get_mean_speed(self) ==
    IF self.cls = "Swimming" THEN Swimming_get_mean_speed(self)
    ELSE Training_get_mean_speed(self)

Training_get_spent_calories_mut(self) == Value(Num(0))

Training_get_spent_calories(self) ==
    Raise("NotImplementedError", [NoMsg EXCEPT !.cls = self.cls])

Running_get_spent_calories_mut(self) ==
    LET speed == get_mean_speed(self)
    IN  IF speed.kind = "raise" THEN speed
        ELSE Value(Mul(TrueDiv(Mul(Add(Mul(Num(CALORIES_SPEED_MULTIPLIER),
                                           speed.val),
                                       Num(CALORIES_SPEED_DEGREES)),
                                   self.weight_kg),
                               Num(M_IN_KM)),
                       Mul(self.duration_h, Num(MIN_IN_H))))

Running_get_spent_calories(self) ==
    LET speed == get_mean_speed(self)
    IN  IF speed.kind = "raise" THEN speed
        ELSE Value(Mul(TrueDiv(Mul(Sub(Mul(Num(CALORIES_SPEED_MULTIPLIER),
                                           speed.val),
                                       Num(CALORIES_SPEED_DEGREES)),
                                   self.weight_kg),
                               Num(M_IN_KM)),
                       Mul(self.duration_h, Num(MIN_IN_H))))

SportsWalking_get_spent_calories(self) ==
    LET speed == get_mean_speed(self)
    IN  IF speed.kind = "raise" THEN speed
        ELSE IF IsZero(self.height_sm) THEN ZeroDivisionError
        ELSE Value(Mul(Add(Mul(CALORIES_WEIGHT_MULTIPLIER_WLK, self.weight_kg),
                           Mul(Mul(FloorDiv(Pow2(speed.val), self.height_sm),
                                   CALORIES_SPEED_HEIGHT_MULTIPLIER),
                               self.weight_kg)),
                       Mul(self.duration_h, Num(MIN_IN_H))))

Swimming_get_spent_calories(self) ==
    LET speed == get_mean_speed(self)
    IN  IF speed.kind = "raise" THEN speed
        ELSE Value(Mul(Mul(Add(speed.val, CALORIES_MEAN_SPEED_SHIFT),
                           Num(CALORIES_WEIGHT_MULTIPLIER_SWM)),
                       self.weight_kg))

get_spent_calories(self) ==
    CASE self.cls = "Running" -> Running_get_spent_calories(self)
      [] self.cls = "SportsWalking" -> SportsWalking_get_spent_calories(self)
      [] self.cls = "Swimming" -> Swimming_get_spent_calories(self)
      [] OTHER -> Training_get_spent_calories(self)

InfoMessage(training_type, duration, distance, speed, calories) ==
    [training_type |-> training_type, duration |-> duration,
     distance |-> distance, speed |-> speed, calories |-> calories]

show_training_info(self) ==
    LET distance == get_distance(self)
        speed == get_mean_speed(self)
        calories == get_spent_calories(self)
    IN  IF distance.kind = "raise" THEN distance
        ELSE IF speed.kind = "raise" THEN speed
        ELSE IF calories.kind = "raise" THEN calories
        ELSE Value(InfoMessage(self.cls, self.duration_h, distance.val,
                               speed.val, calories.val))

(* The ".3f" conversion: the number in thousandths, rounded to nearest.   *)
(* An exact decimal tie is decided by the binary value of the float,      *)
(* which the rationals do not carry: both neighbours are possible.        *)
FormatF3(x) ==
    LET t == Mul(x, Num(1000))
        fl == t.n \div t.d
        twice == 2 * (t.n - fl * t.d)
    IN  IF twice < t.d THEN {fl}
        ELSE IF twice > t.d THEN {fl + 1}
        ELSE {fl, fl + 1}

get_message(info) ==
    {[training_type |-> info.training_type, duration |-> du,
      distance |-> di, speed |-> sp, calories |-> ca] :
        du \in FormatF3(info.duration), di \in FormatF3(info.distance),
        sp \in FormatF3(info.speed), ca \in FormatF3(info.calories)}

(* --------------------------- dispatcher ------------------------------- *)
training_name == <<"SWM", "RUN", "WLK">>

TrainingClass(workout_type) ==
    CASE workout_type = "SWM" -> "Swimming"
      [] workout_type = "RUN" -> "Running"
      [] workout_type = "WLK" -> "SportsWalking"

Arity(cls) ==
    CASE cls = "Swimming" -> 5
      [] cls = "SportsWalking" -> 4
      [] OTHER -> 3

Construct_mut(cls, data) ==
    IF Len(data) < Arity(cls) THEN TypeError
    ELSE CASE cls = "Swimming" ->
                Value(Swimming_init(data[1], data[2], data[3], data[4], data[5]))
           [] cls = "SportsWalking" ->
                Value(SportsWalking_init(data[1], data[2], data[3], data[4]))
           [] OTHER ->
                Value(Training_init(cls, data[1], data[2], data[3]))

Construct(cls, data) ==
    IF Len(data) # Arity(cls) THEN TypeError
    ELSE CASE cls = "Swimming" ->
                Value(Swimming_init(data[1], data[2], data[3], data[4], data[5]))
           [] cls = "SportsWalking" ->
                Value(SportsWalking_init(data[1], data[2], data[3], data[4]))
           [] OTHER ->
                Value(Training_init(cls, data[1], data[2], data[3]))

read_package_mut(workout_type, data) ==
    IF workout_type \notin {training_name[k] : k \in 1..Len(training_name)}
    THEN Construct("Running", data)
    ELSE Construct(TrainingClass(workout_type), data)

read_package(workout_type, data) ==
    IF workout_type \notin {training_name[k] : k \in 1..Len(training_name)}
    THEN Raise("ValueError",
               [NoMsg EXCEPT !.code = workout_type, !.keys = training_name])
    ELSE Construct(TrainingClass(workout_type), data)

(* ----------------------------- inputs --------------------------------- *)
WorkoutTypes == {"SWM", "RUN", "WLK", "XYZ", "swm", "Run", ""}

ActionVals == {Num(0), Num(720), Num(9000), Num(15000)}
DurationVals == {Num(0 - 1), Num(0), Num(1), Rat(1, 2)}
WeightVals == {Num(75), Num(80)}
FourthVals == {Num(0), Num(25), Num(180)}
FifthVals == {Num(20), Num(40)}
ExtraVals == {Num(7)}

ArgVals(k) ==
    CASE k = 1 -> ActionVals
      [] k = 2 -> DurationVals
      [] k = 3 -> WeightVals
      [] k = 4 -> FourthVals
      [] k = 5 -> FifthVals
      [] OTHER -> ExtraVals

RECURSIVE DataOfLen(_)
DataOfLen(n) ==
    IF n = 0 THEN {<<>>}
    ELSE {Append(s, v) : s \in DataOfLen(n - 1), v \in ArgVals(n)}

DataLists == UNION {DataOfLen(n) : n \in 0..MaxDataLen}

Package(workout_type, data) == [workout_type |-> workout_type, data |-> data]

SourcePackages ==
    {Package("SWM", <<Num(720), Num(1), Num(80), Num(25), Num(40)>>),
     Package("RUN", <<Num(15000), Num(1), Num(75)>>),
     Package("WLK", <<Num(9000), Num(1), Num(75), Num(180)>>)}

FaultyPackages ==
    {Package("XYZ", <<Num(720), Num(1), Num(80), Num(25), Num(40)>>),
     Package("RUN", <<Num(15000), Num(0), Num(75)>>),
     Package("WLK", <<Num(9000), Num(1), Num(75)>>),
     Package("WLK", <<Num(9000), Num(1), Num(75), Num(0)>>)}

PackageSet == SourcePackages \cup FaultyPackages

RECURSIVE PackagesOfLen(_)
PackagesOfLen(n) ==
    IF n = 0 THEN {<<>>}
    ELSE {Append(s, p) : s \in PackagesOfLen(n - 1), p \in PackageSet}

PackageLists == UNION {PackagesOfLen(n) : n \in 0..MaxPackages}

(* ------------------------------ state --------------------------------- *)
NoOutcome == [kind |-> "none", exc |-> "", msg |-> NoMsg, val |-> Num(0)]
NoArg == Package("", <<>>)
Result(op, outcome) == [op |-> op, out |-> outcome]
NoResult == Result("", NoOutcome)

InitCommon ==
    /\ training = NoTraining
    /\ constructed = NoTraining
    /\ arg = NoArg
    /\ ret = NoResult
    /\ history = <<>>
    /\ out = <<>>
    /\ err = NoOutcome
    /\ i = 1

Init ==
    /\ InitCommon
    /\ packages = <<>>
    /\ pc = "client"

batchVars == <<packages, i, pc, out, err>>

(* ------------------- calls made by a client of the API ----------------- *)
(* A client builds one instance, through the dispatcher or directly, and  *)
(* then calls its methods in any order.                                   *)
ReadPackage ==
    \E workout_type \in WorkoutTypes, data \in DataLists :
        LET r == read_package(workout_type, data)
            made == IF r.kind = "value" THEN r.val ELSE NoTraining
        IN  /\ pc = "client"
            /\ ret = NoResult
            /\ arg' = Package(workout_type, data)
            /\ ret' = Result("read_package", r)
            /\ training' = made
            /\ constructed' = made
            /\ history' = <<>>
            /\ UNCHANGED batchVars

NewTraining ==
    \E action \in ActionVals, duration \in DurationVals, weight \in WeightVals :
        LET made == Training_init("Training", action, duration, weight)
        IN  /\ pc = "client"
            /\ ret = NoResult
            /\ arg' = Package("", <<action, duration, weight>>)
            /\ ret' = Result("Training", Value(made))
            /\ training' = made
            /\ constructed' = made
            /\ history' = <<>>
            /\ UNCHANGED batchVars

CanCall ==
    /\ pc = "client"
    /\ training.cls # "None"
    /\ Len(history) < MaxCalls

Called(op, outcome) ==
    /\ ret' = Result(op, outcome)
    /\ history' = Append(history, Result(op, outcome))
    /\ UNCHANGED <<constructed, arg, batchVars>>

GetDistance ==
    /\ CanCall
    /\ Called("get_distance", get_distance(training))
    /\ UNCHANGED training

GetMeanSpeed ==
    /\ CanCall
    /\ Called("get_mean_speed", get_mean_speed(training))
    /\ UNCHANGED training

GetSpentCalories_mut ==
    /\ CanCall
    /\ Called("get_spent_calories", get_spent_calories(training))
    /\ training' = [training EXCEPT !.duration_h = Mul(@, Num(MIN_IN_H))]

GetSpentCalories ==
    /\ CanCall
    /\ Called("get_spent_calories", get_spent_calories(training))
    /\ UNCHANGED training

ShowTrainingInfo ==
    /\ CanCall
    /\ Called("show_training_info", show_training_info(training))
    /\ UNCHANGED training

GetMessage ==
    /\ pc = "client"
    /\ ret.op = "show_training_info"
    /\ ret.out.kind = "value"
    /\ \E line \in get_message(ret.out.val) :
           ret' = Result("get_message", Value(line))
    /\ UNCHANGED <<training, constructed, arg, history, batchVars>>

Next ==
    \/ ReadPackage
    \/ NewTraining
    \/ GetDistance
    \/ GetMeanSpeed
    \/ GetSpentCalories
    \/ ShowTrainingInfo
    \/ GetMessage

Spec == Init /\ [][Next]_vars

(* ------------------------- the batch driver --------------------------- *)
InitBatch ==
    /\ InitCommon
    /\ packages \in PackageLists
    /\ pc = "read"

clientVars == <<constructed, arg, ret, history>>

LoopExit ==
    /\ pc = "read"
    /\ i > Len(packages)
    /\ pc' = "done"
    /\ UNCHANGED <<training, packages, i, out, err, clientVars>>

LoopReadPackage ==
    /\ pc = "read"
    /\ i <= Len(packages)
    /\ LET r == read_package(packages[i].workout_type, packages[i].data)
       IN  IF r.kind = "raise"
           THEN /\ err' = r
                /\ pc' = "aborted"
                /\ UNCHANGED training
           ELSE /\ training' = r.val
                /\ pc' = "main"
                /\ UNCHANGED err
    /\ UNCHANGED <<packages, i, out, clientVars>>

main_mut ==
    /\ pc = "main"
    /\ LET info == show_training_info(training)
       IN  IF info.kind = "raise"
           THEN /\ err' = info
                /\ i' = i + 1
                /\ pc' = "read"
                /\ UNCHANGED out
           ELSE /\ \E line \in get_message(info.val) : out' = Append(out, line)
                /\ i' = i + 1
                /\ pc' = "read"
                /\ UNCHANGED err
    /\ UNCHANGED <<training, packages, clientVars>>

main ==
    /\ pc = "main"
    /\ LET info == show_training_info(training)
       IN  IF info.kind = "raise"
           THEN /\ err' = info
                /\ pc' = "aborted"
                /\ UNCHANGED <<i, out>>
           ELSE /\ \E line \in get_message(info.val) : out' = Append(out, line)
                /\ i' = i + 1
                /\ pc' = "read"
                /\ UNCHANGED err
    /\ UNCHANGED <<training, packages, clientVars>>

NextBatch ==
    \/ LoopReadPackage
    \/ main
    \/ LoopExit

SpecBatch == InitBatch /\ [][NextBatch]_vars

(* ======================= properties of the dispatcher ================= *)
KnownCodes == {"SWM", "RUN", "WLK"}
Variants == {"Running", "SportsWalking", "Swimming"}
AfterRead == ret.op = "read_package"

(* C1: read_package with a workout_type other than "SWM", "RUN", "WLK"    *)
(* raises ValueError whose message names the code and lists the valid     *)
(* codes, whatever the data list (wrong lengths included); no constructor *)
(* runs and no instance is returned.                                      *)
C1_UnknownCodeRaisesValueError ==
    (AfterRead /\ arg.workout_type \notin KnownCodes) =>
        /\ ret.out.kind = "raise"
        /\ ret.out.exc = "ValueError"
        /\ ret.out.msg.code = arg.workout_type
        /\ {ret.out.msg.keys[k] : k \in 1..Len(ret.out.msg.keys)} = KnownCodes
        /\ training = NoTraining

C1_Witness ==
    /\ AfterRead
    /\ arg.workout_type = "XYZ"
    /\ Len(arg.data) = 2
    /\ ret.out.exc = "ValueError"
    /\ ret.out.msg.code = "XYZ"

(* C2: the codes map exactly and case-sensitively: "SWM" with 5 arguments *)
(* gives a Swimming, "RUN" with 3 a Running, "WLK" with 4 a SportsWalking,*)
(* each holding the arguments positionally; any other spelling is not     *)
(* recognized.                                                            *)
C2_CodesMapPositionally ==
    AfterRead =>
        LET wt == arg.workout_type
            data == arg.data
        IN  /\ (wt = "SWM" /\ Len(data) = 5) =>
                   /\ ret.out.kind = "value"
                   /\ ret.out.val = training
                   /\ training = [cls |-> "Swimming", action |-> data[1],
                                  duration_h |-> data[2], weight_kg |-> data[3],
                                  height_sm |-> Unset, length_pool_m |-> data[4],
                                  count_pool |-> data[5]]
            /\ (wt = "RUN" /\ Len(data) = 3) =>
                   /\ ret.out.kind = "value"
                   /\ ret.out.val = training
                   /\ training = [cls |-> "Running", action |-> data[1],
                                  duration_h |-> data[2], weight_kg |-> data[3],
                                  height_sm |-> Unset, length_pool_m |-> Unset,
                                  count_pool |-> Unset]
            /\ (wt = "WLK" /\ Len(data) = 4) =>
                   /\ ret.out.kind = "value"
                   /\ ret.out.val = training
                   /\ training = [cls |-> "SportsWalking", action |-> data[1],
                                  duration_h |-> data[2], weight_kg |-> data[3],
                                  height_sm |-> data[4], length_pool_m |-> Unset,
                                  count_pool |-> Unset]
            /\ (wt \in {"swm", "Run", ""}) =>
                   /\ ret.out.kind = "raise"
                   /\ ret.out.exc = "ValueError"

C2_Witness ==
    /\ AfterRead
    /\ arg = Package("SWM", <<Num(720), Num(1), Num(80), Num(25), Num(40)>>)
    /\ training.cls = "Swimming"
    /\ training.length_pool_m = Num(25)
    /\ training.count_pool = Num(40)

(* C9: with a recognized code, a data list shorter or longer than the     *)
(* variant's arity (3 RUN, 4 WLK, 5 SWM) fails at construction and gives  *)
(* no instance; with the exact length an instance is always returned,     *)
(* zero and negative values included.                                     *)
C9_ArityDecidesConstruction ==
    (AfterRead /\ arg.workout_type \in KnownCodes) =>
        LET wt == arg.workout_type
            arity == IF wt = "RUN" THEN 3 ELSE IF wt = "WLK" THEN 4 ELSE 5
        IN  /\ Len(arg.data) # arity =>
                   /\ ret.out.kind = "raise"
                   /\ ret.out.exc = "TypeError"
                   /\ training = NoTraining
            /\ Len(arg.data) = arity =>
                   /\ ret.out.kind = "value"
                   /\ training.cls \in Variants
                   /\ training.action = arg.data[1]
                   /\ training.duration_h = arg.data[2]

C9_Witness ==
    /\ AfterRead
    /\ arg.workout_type = "RUN"
    /\ Len(arg.data) = 4
    /\ ret.out.exc = "TypeError"
    /\ training = NoTraining

(* ======================= properties of the calculators ================ *)
Positive(x) == Less(Num(0), x)
Negative(x) == Less(x, Num(0))
Floor(x) == Num(x.n \div x.d)
IsWhole(x) == x.d = 1
Returned(op) == ret.op = op /\ ret.out.kind = "value"
Raised(op) == ret.op = op /\ ret.out.kind = "raise"

(* C3 as stated: for every variant, get_mean_speed() with a zero or       *)
(* negative duration is reported as an error, no speed is returned and    *)
(* show_training_info() produces no InfoMessage.                          *)
C3_NonPositiveDurationRejected ==
    (training.cls \in Variants /\ ~Positive(training.duration_h)) =>
        /\ ret.op = "get_mean_speed" => ret.out.kind = "raise"
        /\ ret.op = "show_training_info" => ret.out.kind = "raise"

(* C3 amended: for every variant, get_mean_speed() with a zero duration   *)
(* raises ZeroDivisionError, so no speed is returned and                  *)
(* show_training_info() produces no InfoMessage; a negative duration is   *)
(* not checked and get_mean_speed() returns the quotient by it.           *)
C3_ZeroDurationRaises ==
    training.cls \in Variants =>
        /\ IsZero(training.duration_h) =>
              /\ ret.op = "get_mean_speed" =>
                     ret.out.kind = "raise" /\ ret.out.exc = "ZeroDivisionError"
              /\ ret.op = "show_training_info" =>
                     ret.out.kind = "raise" /\ ret.out.exc = "ZeroDivisionError"
        /\ Negative(training.duration_h) =>
              /\ ret.op = "get_mean_speed" =>
                     /\ ret.out.kind = "value"
                     /\ Mul(ret.out.val, training.duration_h)
                            = (IF training.cls = "Swimming"
                               THEN Mul(Mul(training.length_pool_m,
                                            training.count_pool), Rat(1, 1000))
                               ELSE Mul(training.action, Rat(13, 20000)))

C3_Witness ==
    /\ training.cls = "Swimming"
    /\ IsZero(training.duration_h)
    /\ Raised("show_training_info")
    /\ ret.out.exc = "ZeroDivisionError"

(* C4: get_spent_calories() on the base Training always raises            *)
(* NotImplementedError, so show_training_info() on a base Training never  *)
(* returns an InfoMessage; Running, SportsWalking and Swimming override   *)
(* it and never raise that error.                                         *)
C4_BaseCaloriesNotImplemented ==
    /\ training.cls = "Training" =>
          /\ ret.op = "get_spent_calories" =>
                 /\ ret.out.kind = "raise"
                 /\ ret.out.exc = "NotImplementedError"
                 /\ ret.out.msg.cls = "Training"
          /\ ret.op = "show_training_info" => ret.out.kind = "raise"
    /\ training.cls \in Variants =>
          \A k \in 1..Len(history) : history[k].out.exc # "NotImplementedError"

C4_Witness ==
    /\ training.cls = "Training"
    /\ Positive(training.duration_h)
    /\ Raised("show_training_info")
    /\ ret.out.exc = "NotImplementedError"

(* C5: no sequence of get_distance(), get_mean_speed(),                   *)
(* get_spent_calories() and show_training_info() calls changes a field of *)
(* the instance, and any two show_training_info() calls on it, with other *)
(* calls in between, return equal results.                                *)
C5_CallsLeaveInstanceUnchanged ==
    /\ training = constructed
    /\ \A j, k \in 1..Len(history) :
           (history[j].op = "show_training_info"
              /\ history[k].op = "show_training_info")
           => history[j].out = history[k].out

C5_Witness ==
    /\ Len(history) = 3
    /\ history[1].op = "show_training_info"
    /\ history[1].out.kind = "value"
    /\ history[2].op = "get_spent_calories"
    /\ history[3].op = "show_training_info"
    /\ history[3].out.val.training_type = "SportsWalking"

(* C6: for a Running instance with duration > 0, get_distance() is        *)
(* action * 0.65 / 1000, get_mean_speed() is that distance / duration and *)
(* get_spent_calories() is (18 * speed - 20) * weight / 1000 *            *)
(* (duration * 60); action 15000, duration 1, weight 75 give 9.75, 9.75   *)
(* and 699.75.                                                            *)
C6_RunningFormulas ==
    (training.cls = "Running" /\ Positive(training.duration_h)) =>
        LET a == training.action
            d == training.duration_h
            w == training.weight_kg
            dist == Mul(a, Rat(13, 20000))
            speed == Rat(dist.n * d.d, dist.d * d.n)
            kcal == Mul(Mul(Sub(Mul(Num(18), speed), Num(20)), Mul(w, d)),
                        Rat(60, 1000))
            sample == a = Num(15000) /\ d = Num(1) /\ w = Num(75)
        IN  /\ ret.op = "get_distance" =>
                   /\ ret.out = Value(dist)
                   /\ sample => ret.out.val = Rat(975, 100)
            /\ ret.op = "get_mean_speed" =>
                   /\ ret.out = Value(speed)
                   /\ sample => ret.out.val = Rat(975, 100)
            /\ ret.op = "get_spent_calories" =>
                   /\ ret.out = Value(kcal)
                   /\ sample => ret.out.val = Rat(69975, 100)

C6_Witness ==
    /\ training = Training_init("Running", Num(15000), Num(1), Num(75))
    /\ Returned("get_spent_calories")
    /\ ret.out.val = Rat(69975, 100)

(* C7: for a SportsWalking instance get_spent_calories() is (0.035 *      *)
(* weight + floor(speed^2 / height) * 0.029 * weight) * (duration * 60),  *)
(* the quotient floored before it is multiplied: when 0 <= speed^2 <      *)
(* height the result is 0.035 * weight * duration * 60 (9000, 1, 75, 180  *)
(* give 157.5) and the speed term is a whole multiple of 0.029 * weight.  *)
C7_WalkingFloorDivision ==
    (training.cls = "SportsWalking" /\ Returned("get_spent_calories")) =>
        LET d == training.duration_h
            w == training.weight_kg
            h == training.height_sm
            dist == Mul(training.action, Rat(13, 20000))
            speed == Rat(dist.n * d.d, dist.d * d.n)
            sq == Mul(speed, speed)
            whole == Floor(Rat(sq.n * h.d, sq.d * h.n))
            minutes == Mul(d, Num(60))
            base == Mul(Mul(Rat(35, 1000), w), minutes)
            term == Sub(ret.out.val, base)
            unit == Mul(Mul(Rat(29, 1000), w), minutes)
        IN  /\ ret.out.val = Add(base, Mul(whole, unit))
            /\ (~Less(sq, Num(0)) /\ Less(sq, h)) => ret.out.val = base
            /\ (training = SportsWalking_init(Num(9000), Num(1), Num(75),
                                              Num(180)))
                   => ret.out.val = Rat(1575, 10)
            /\ ~IsZero(unit) => IsWhole(Rat(term.n * unit.d, term.d * unit.n))

C7_Witness ==
    /\ training = SportsWalking_init(Num(9000), Num(1), Num(75), Num(25))
    /\ Returned("get_spent_calories")
    /\ ret.out.val = Num(288)

(* C8: for a Swimming instance with duration > 0, get_mean_speed() is     *)
(* pool_length * pool_count / 1000 / duration and get_spent_calories() is *)
(* (speed + 1.1) * 2 * weight, both independent of the action count;      *)
(* get_distance() is action * 1.38 / 1000, independent of the pool        *)
(* fields; 720, 1, 80, 25, 40 give speed 1.0, distance 0.9936 and         *)
(* calories 336.0.                                                        *)
C8_SwimmingFormulas ==
    (training.cls = "Swimming" /\ Positive(training.duration_h)) =>
        LET d == training.duration_h
            w == training.weight_kg
            swum == Mul(Mul(training.length_pool_m, training.count_pool),
                        Rat(1, 1000))
            speed == Rat(swum.n * d.d, swum.d * d.n)
            kcal == Mul(Add(speed, Rat(11, 10)), Mul(Num(2), w))
            dist == Mul(training.action, Rat(138, 100000))
            sample == training = Swimming_init(Num(720), Num(1), Num(80),
                                               Num(25), Num(40))
        IN  /\ ret.op = "get_mean_speed" =>
                   /\ ret.out = Value(speed)
                   /\ \A a \in ActionVals :
                          get_mean_speed([training EXCEPT !.action = a]) = ret.out
                   /\ sample => ret.out.val = Num(1)
            /\ ret.op = "get_spent_calories" =>
                   /\ ret.out = Value(kcal)
                   /\ \A a \in ActionVals :
                          get_spent_calories([training EXCEPT !.action = a])
                              = ret.out
                   /\ sample => ret.out.val = Num(336)
            /\ ret.op = "get_distance" =>
                   /\ ret.out = Value(dist)
                   /\ \A lp \in FourthVals, cp \in FifthVals :
                          get_distance([training EXCEPT !.length_pool_m = lp,
                                                        !.count_pool = cp])
                              = ret.out
                   /\ sample => ret.out.val = Rat(9936, 10000)
            /\ ret.op = "show_training_info" =>
                   /\ ret.out.kind = "value"
                   /\ ret.out.val = InfoMessage("Swimming", d, dist, speed, kcal)

C8_Witness ==
    /\ training = Swimming_init(Num(720), Num(1), Num(80), Num(25), Num(40))
    /\ Returned("show_training_info")
    /\ ret.out.val.speed = Num(1)
    /\ ret.out.val.distance = Rat(9936, 10000)
    /\ ret.out.val.calories = Num(336)
    /\ ret.out.val.speed
           # Rat(ret.out.val.distance.n * ret.out.val.duration.d,
                 ret.out.val.distance.d * ret.out.val.duration.n)

(* ======================= properties of the batch driver =============== *)
Built(p) == read_package(p.workout_type, p.data)

Succeeds(p) ==
    /\ Built(p).kind = "value"
    /\ get_distance(Built(p).val).kind = "value"
    /\ get_mean_speed(Built(p).val).kind = "value"
    /\ get_spent_calories(Built(p).val).kind = "value"

LinesOf(p) == get_message(show_training_info(Built(p).val).val)

BatchState ==
    /\ i \in 1..(Len(packages) + 1)
    /\ Len(out) = i - 1
    /\ \A k \in 1..Len(out) : Succeeds(packages[k]) /\ out[k] \in LinesOf(packages[k])
    /\ pc = "main" => i <= Len(packages) /\ Built(packages[i]).kind = "value"
    /\ pc = "aborted" =>
           /\ i <= Len(packages)
           /\ ~Succeeds(packages[i])
           /\ err.kind = "raise"
    /\ pc = "done" => Len(out) = Len(packages) /\ err.kind = "none"

BatchStep ==
    /\ \/ out' = out
       \/ /\ pc = "main"
          /\ Succeeds(packages[i])
          /\ i' = i + 1
          /\ \E line \in LinesOf(packages[i]) : out' = Append(out, line)
    /\ i' \in {i, i + 1}
    /\ pc = "aborted" => (pc' = "aborted" /\ out' = out /\ i' = i)

(* C10: the batch driver processes the packages in list order; a package  *)
(* emits exactly one line, only after its construction and its distance,  *)
(* speed and calorie computations succeeded, or raises and emits nothing; *)
(* an error in package i keeps the lines of the packages before i and     *)
(* prevents a line for every package after i.                             *)
C10_BatchStopsAtFirstError == [](BatchState) /\ [][BatchStep]_vars

C10_Witness ==
    /\ pc = "aborted"
    /\ Len(packages) = 3
    /\ i = 2
    /\ Len(out) = 1
    /\ Succeeds(packages[3])

====
